---- MODULE Spec2Model ----
(***************************************************************************)
(* Model of the authentication / session slice of the isupipe webapp:     *)
(* userRegisterHandler (POST /user), loginHandler (POST /login) and       *)
(* userHandler (GET /user/:user_id) of webapp/go/user_handler.go, run by  *)
(* concurrent request handlers against one shared database.  Every SQL    *)
(* statement is one atomic step of the handler that issues it.            *)
(***************************************************************************)
EXTENDS Integers, Sequences, FiniteSets, TLC

\* ------------------------------------------------------------ bounds
MaxTicks == 1        \* clock advances in one behaviour
MaxFaults == 1       \* storage / cookie-codec failures in one behaviour

\* the request handlers (goroutines) that may run at the same time
Procs == {1, 2}

\* ------------------------------------------------------------ inputs
Names == {"test", "isu"}
DisplayNames == {"Test"}
Descriptions == {"blah blah blah"}
Passwords == {"s3cr3t", "hunter2"}
SessionIds == {"uuid-a", "uuid-b"}
NoCookie == "<no cookie>"
BadCookie == "<undecodable cookie>"
PathParams == {"1", "2"}
\* a name clients log in with but never register
Strangers == {"guest"}
\* 10 * time.Minute, in seconds
SessionTTL == 600
\* MaxAge of the session cookie, in seconds
CookieMaxAge == 600
\* the clock advances to the last instant of a session issued now, or past it
Deltas == {SessionTTL, SessionTTL + 1}

\* ------------------------------------------------------------ Go values
\* time.Time{}: the zero time, 0001-01-01T00:00:00Z, an instant before every
\* reading of the clock (its Unix value, -62135596800, is kept as -1)
ZeroTime == -1

ZeroUser ==
  [ID |-> 0, Name |-> "", DisplayName |-> "", Description |-> "",
   Password |-> "", CreatedAt |-> ZeroTime, UpdatedAt |-> ZeroTime]

ZeroSession == [ID |-> "", UserID |-> 0, Expires |-> 0]

ZeroRequest ==
  [name |-> "", display_name |-> "", description |-> "", password |-> "",
   cookie |-> NoCookie, path |-> ""]

\* fmt.Sprintf("%x", sha512.Sum512([]byte(p))): the lower-case hex digest
Sha512Hex(p) ==
  CASE p = "s3cr3t" ->
         "482551228411e98ad8cb1f8b0a1443c9ffbafc10b630c7646c518ab19331ea7e2cf24ad383527da1071e2177af7e41b9e751c9c4fb2499aa22f69824f9657339"
    [] p = "hunter2" ->
         "6b97ed68d14eb3f1aa959ce5d49c7dc612e1eb1dafd73b1e705847483fd6a6c809f2ceb4e8df6ff9984c6298ff0285cace6614bf8daa9f0070101b6c89899e22"

\* the path parameter as the database compares it with the integer id column
ParamToId(s) ==
  CASE s = "1" -> 1
    [] s = "2" -> 2
    [] OTHER -> 0

\* ------------------------------------------------------------ state
VARIABLES
  users,      \* committed rows of table users
  sessions,   \* committed rows of table sessions
  autoInc,    \* next AUTO_INCREMENT value of users.id
  clock,      \* time.Now().Unix(), in seconds since the server started
  ticks,      \* clock advances so far
  nfaults,    \* injected failures so far
  h,          \* h[p]: the request handler p is running, or its last response
  issued,     \* session identifiers handed out in cookies, in order of issue
  registered, \* <<name, plaintext password>> of every committed registration
  clients,    \* the user names the clients of this run register
  pretest     \* the benchmarker's Pretest scenario: its position and cookie jar

vars == <<users, sessions, autoInc, clock, ticks, nfaults, h, issued, registered,
          clients, pretest>>

\* everything but the handlers, the fault budget and the two stores
env == <<autoInc, clock, ticks, issued, registered, clients, pretest>>

IdleHandler ==
  [pc |-> "idle", kind |-> "none", req |-> ZeroRequest,
   user |-> ZeroUser, userSession |-> ZeroSession, now |-> 0,
   tx |-> "none", txUsers |-> {}, txSessions |-> {},
   status |-> 0, err |-> "", body |-> ZeroUser, setCookie |-> NoCookie,
   maxAge |-> 0,
   preExists |-> FALSE, warned |-> FALSE, faulted |-> FALSE]

NoPretest == [pc |-> "off", jar |-> NoCookie]

InitStores ==
  /\ users = {}
  /\ sessions = {}
  /\ autoInc = 1
  /\ clock = 0
  /\ ticks = 0
  /\ nfaults = 0
  /\ h = [p \in Procs |-> IdleHandler]
  /\ issued = <<>>
  /\ registered = {}

Init ==
  /\ InitStores
  /\ clients = {"test"}
  /\ pretest = NoPretest

\* a failure of the storage backend (or of the cookie codec) may be injected
\* while the budget lasts
FaultChoices == IF nfaults < MaxFaults THEN {FALSE, TRUE} ELSE {FALSE}

CountFault(f) == nfaults' = IF f THEN nfaults + 1 ELSE nfaults

\* A handler that has returned writes its response before anything else
\* happens: writing it touches no shared state, so every interleaving is
\* equivalent to one in which it comes first.  Only a registration running
\* beside a registration that has returned goes on first, so that the
\* responses to two concurrent registrations are seen side by side.
NoneDone == \A q \in Procs : h[q].pc # "done"

OnlyRegisterDone == \A q \in Procs : h[q].pc = "done" => h[q].kind = "register"

Free(p) == h[p].pc = "idle"

\* the server hands the next request to the first handler that is free
Accepting(p) ==
  /\ NoneDone
  /\ Free(p)
  /\ \A q \in Procs : q < p => ~Free(q)

\* requests other than the scenario's arrive only when no scenario runs
Open == pretest.pc = "off"

\* the response is written and the handler is free again
Respond(p) ==
  /\ Open
  /\ h[p].pc = "done"
  /\ h' = [h EXCEPT ![p] = IdleHandler]
  /\ UNCHANGED <<users, sessions, nfaults, env>>

\* echo.NewHTTPError(code, message): the handler returns an error response
HTTPError(hp, code, message) ==
  [hp EXCEPT !.pc = "done", !.status = code, !.err = message]

\* the request body is not JSON
BadJson(kind) ==
  HTTPError([IdleHandler EXCEPT !.kind = kind], 400,
            "failed to decode the request body as json")

\* ------------------------------------------------------------ storage
\* schema: users(id, name UNIQUE, ...), sessions(id PRIMARY KEY, ...)
TableNames == {"users", "sessions"}

\* another open transaction holds an uncommitted row with the same unique key:
\* the insert waits for that transaction to end
UserInsertBlocked(p, name) ==
  \E q \in Procs \ {p} : \E r \in h[q].txUsers : r.name = name

SessionInsertBlocked(p, id) ==
  \E q \in Procs \ {p} : \E r \in h[q].txSessions : r.id = id

\* UNIQUE(name): a committed row already carries the name
UsersUniqueViolation(name) == \E r \in users : r.name = name

\* PRIMARY KEY(id) of sessions
SessionsKeyViolation(id) == \E r \in sessions : r.id = id

\* ------------------------------------------------------------ POST /user
PostUserRequest(name, dn, desc, pw) ==
  [ZeroRequest EXCEPT !.name = name, !.display_name = dn,
                      !.description = desc, !.password = pw]

UserOf(req) ==
  [ZeroUser EXCEPT !.Name = req.name, !.DisplayName = req.display_name,
                   !.Description = req.description,
                   !.Password = Sha512Hex(req.password)]

\* INSERT INTO users (name, display_name, description, password): the id and
\* the timestamps are the column defaults
UserRow(user, id, t) ==
  [id |-> id, name |-> user.Name, display_name |-> user.DisplayName,
   description |-> user.Description, password |-> user.Password,
   created_at |-> t, updated_at |-> t]

RegisterBadJson(p) ==
  /\ Open
  /\ Accepting(p)
  /\ h' = [h EXCEPT ![p] = BadJson("register")]
  /\ UNCHANGED <<users, sessions, nfaults, env>>

\* the body is decoded, the password hashed and the transaction begun
RegisterAfterBegin(hp, beginFails) ==
  IF beginFails
    THEN [HTTPError(hp, 500, "begin") EXCEPT !.faulted = TRUE]
    ELSE [hp EXCEPT !.pc = "reg_insert", !.tx = "open"]

RegisterStartWith(p, req, f) ==
  /\ Accepting(p)
  /\ h' = [h EXCEPT ![p] =
             RegisterAfterBegin([IdleHandler EXCEPT !.kind = "register", !.req = req,
                                   !.preExists = UsersUniqueViolation(req.name),
                                   !.user = UserOf(req)], f)]
  /\ CountFault(f)
  /\ UNCHANGED <<users, sessions, autoInc, clock, ticks, issued, registered, clients>>

RegisterStart(p) ==
  /\ Open
  /\ \E name \in clients, dn \in DisplayNames, desc \in Descriptions,
        pw \in Passwords, f \in FaultChoices :
       RegisterStartWith(p, PostUserRequest(name, dn, desc, pw), f)
  /\ UNCHANGED pretest

\* the error the INSERT returns, "" when the row was written
InsertUserError(name, fails) ==
  IF fails THEN "insert"
  ELSE IF UsersUniqueViolation(name) THEN "duplicate"
  ELSE ""

\* faulty variant: a duplicate name is taken for a row that is already there and
\* answered like a creation
RegisterAfterInsert_DupOk(hp, e, row) ==
  IF e = "duplicate"
    THEN [hp EXCEPT !.pc = "done", !.tx = "rolledback", !.status = 201,
                    !.body = hp.user]
  ELSE IF e # ""
    THEN [HTTPError(hp, 500, e) EXCEPT !.tx = "rolledback"]
    ELSE [hp EXCEPT !.pc = "reg_commit", !.txUsers = {row}]

\* faulty variant: the error of the INSERT is not checked
RegisterAfterInsert_IgnoreErr(hp, e, row) ==
  [hp EXCEPT !.pc = "reg_commit", !.txUsers = IF e = "" THEN {row} ELSE {}]

\* faulty variant: the failed INSERT is reported but the transaction is left open
RegisterAfterInsert_NoRollback(hp, e, row) ==
  IF e # ""
    THEN HTTPError(hp, 500, e)
    ELSE [hp EXCEPT !.pc = "reg_commit", !.txUsers = {row}]

RegisterAfterInsert(hp, e, row) ==
  IF e # ""
    THEN [HTTPError(hp, 500, e) EXCEPT !.tx = "rolledback"]
    ELSE [hp EXCEPT !.pc = "reg_commit", !.txUsers = {row}]

\* two inserts of one name are serialised by the unique index
RegisterInsert(p) ==
  /\ OnlyRegisterDone
  /\ h[p].pc = "reg_insert"
  /\ ~UserInsertBlocked(p, h[p].user.Name)
  /\ \E f \in FaultChoices :
       LET e == InsertUserError(h[p].user.Name, f)
       IN /\ h' = [h EXCEPT ![p] =
                     RegisterAfterInsert([h[p] EXCEPT !.faulted = f], e,
                                         UserRow(h[p].user, autoInc, clock))]
          /\ autoInc' = IF e = "" THEN autoInc + 1 ELSE autoInc
          /\ CountFault(f)
  /\ UNCHANGED <<users, sessions, clock, ticks, issued, registered, clients, pretest>>

\* c.JSON(http.StatusCreated, user): the handler's own struct is the response
RegisterResponse(hp) ==
  [hp EXCEPT !.pc = "done", !.tx = "committed", !.txUsers = {},
             !.status = 201, !.body = hp.user]

RegisterCommit(p) ==
  /\ OnlyRegisterDone
  /\ h[p].pc = "reg_commit"
  /\ \/ /\ TRUE \in FaultChoices
        /\ h' = [h EXCEPT ![p] =
                   [HTTPError(h[p], 500, "commit") EXCEPT
                      !.tx = "rolledback", !.txUsers = {}, !.faulted = TRUE]]
        /\ CountFault(TRUE)
        /\ UNCHANGED <<users, registered>>
     \/ /\ users' = users \cup h[p].txUsers
        /\ registered' = registered \cup {<<h[p].req.name, h[p].req.password>>}
        /\ h' = [h EXCEPT ![p] = RegisterResponse(h[p])]
        /\ UNCHANGED nfaults
  /\ UNCHANGED <<sessions, autoInc, clock, ticks, issued, clients, pretest>>

\* ------------------------------------------------------------ POST /login
LoginRequest(name, pw) == [ZeroRequest EXCEPT !.name = name, !.password = pw]

\* faulty variant: the id column is not scanned into the struct
UserFromRow_NoId(r) ==
  [ID |-> 0, Name |-> r.name, DisplayName |-> r.display_name,
   Description |-> r.description, Password |-> r.password,
   CreatedAt |-> r.created_at, UpdatedAt |-> r.updated_at]

\* SELECT * FROM users: every column of the row is scanned into the struct
UserFromRow(r) ==
  [ID |-> r.id, Name |-> r.name, DisplayName |-> r.display_name,
   Description |-> r.description, Password |-> r.password,
   CreatedAt |-> r.created_at, UpdatedAt |-> r.updated_at]

\* SELECT * FROM users WHERE name = ?
UsersByName(name) == {r \in users : r.name = name}

\* faulty variant: && written for ||
CredentialsMatch_And(req, user) ==
  ~(req.name # user.Name /\ Sha512Hex(req.password) # user.Password)

\* the negation of: req.UserName != user.Name || hashedPassword != user.Password
CredentialsMatch(req, user) ==
  ~(req.name # user.Name \/ Sha512Hex(req.password) # user.Password)

\* faulty variant: ten seconds for ten minutes
SessionEndAt_TenSeconds(t) == t + 10

\* sessionEndAt := time.Now().Add(10 * time.Minute); Expires: sessionEndAt.Unix()
SessionEndAt(t) == t + SessionTTL

LoginBadJson(p) ==
  /\ Open
  /\ Accepting(p)
  /\ h' = [h EXCEPT ![p] = BadJson("login")]
  /\ UNCHANGED <<users, sessions, nfaults, env>>

\* the user lookup: a lookup error (no row) returns 500, a mismatch 401, both
\* without ending the transaction
LoginAfterSelect(hp, found) ==
  IF found = {}
    THEN HTTPError(hp, 500, "sql: no rows in result set")
    ELSE LET user == UserFromRow(CHOOSE r \in found : TRUE)
         IN IF ~CredentialsMatch(hp.req, user)
              THEN HTTPError([hp EXCEPT !.user = user], 401,
                             "invalid username or password")
              ELSE [hp EXCEPT !.user = user, !.pc = "login_insert"]

\* the error the INSERT INTO sessions returns, "" when the row was written
InsertSessionError(id, fails) ==
  IF fails THEN "insert"
  ELSE IF SessionsKeyViolation(id) THEN "duplicate"
  ELSE ""

\* faulty variant: the error of the INSERT is not checked
LoginAfterInsert_IgnoreErr(hp, e) ==
  [hp EXCEPT !.pc = "login_commit",
             !.txSessions = IF e = "" THEN {[id |-> hp.userSession.ID,
                                              user_id |-> hp.userSession.UserID,
                                              expires |-> hp.userSession.Expires]}
                            ELSE {}]

LoginAfterInsert(hp, e) ==
  IF e # ""
    THEN [HTTPError(hp, 500, e) EXCEPT !.tx = "rolledback"]
    ELSE [hp EXCEPT !.pc = "login_commit",
                    !.txSessions = {[id |-> hp.userSession.ID,
                                     user_id |-> hp.userSession.UserID,
                                     expires |-> hp.userSession.Expires]}]

\* The request is decoded, the transaction begun, the user selected and
\* compared, and the session row inserted.  Committed rows of users never
\* change, so the SELECT and the INSERT are taken in one step.
LoginWith(p, req) ==
  /\ Accepting(p)
  /\ LET h0 == [IdleHandler EXCEPT !.kind = "login", !.req = req]
     IN \/ /\ TRUE \in FaultChoices
           /\ h' = [h EXCEPT ![p] =
                      [HTTPError(h0, 500, "begin") EXCEPT !.faulted = TRUE]]
           /\ CountFault(TRUE)
        \/ LET hp == LoginAfterSelect([h0 EXCEPT !.tx = "open"], UsersByName(req.name))
           IN IF hp.pc = "done"
                THEN /\ h' = [h EXCEPT ![p] = hp]
                     /\ UNCHANGED nfaults
                ELSE \E sessionID \in SessionIds, f \in FaultChoices :
                       LET hs == [hp EXCEPT !.faulted = f, !.now = clock, !.userSession =
                                    [ID |-> sessionID, UserID |-> hp.user.ID,
                                     Expires |-> SessionEndAt(clock)]]
                       IN /\ ~SessionInsertBlocked(p, sessionID)
                          /\ h' = [h EXCEPT ![p] =
                                     LoginAfterInsert(hs, InsertSessionError(sessionID, f))]
                          /\ CountFault(f)
  /\ UNCHANGED <<users, sessions, autoInc, clock, ticks, issued, registered, clients>>

Login(p) ==
  /\ Open
  /\ \E name \in clients \cup Strangers, pw \in Passwords :
       LoginWith(p, LoginRequest(name, pw))
  /\ UNCHANGED pretest

\* after the commit: session.Get, the cookie options and value, sess.Save;
\* cookieFails: session.Get or sess.Save returns an error
LoginResponse(hp, cookieFails) ==
  LET hc == [hp EXCEPT !.tx = "committed", !.txSessions = {}]
  IN IF cookieFails
       THEN [HTTPError(hc, 500, "cookie") EXCEPT !.faulted = TRUE]
       ELSE [hc EXCEPT !.pc = "done", !.status = 200,
                       !.setCookie = hc.userSession.ID, !.maxAge = CookieMaxAge]

LoginCommit(p) ==
  /\ NoneDone
  /\ h[p].pc = "login_commit"
  /\ \/ /\ TRUE \in FaultChoices
        /\ h' = [h EXCEPT ![p] =
                   [HTTPError(h[p], 500, "commit") EXCEPT
                      !.tx = "rolledback", !.txSessions = {}, !.faulted = TRUE]]
        /\ CountFault(TRUE)
        /\ UNCHANGED <<sessions, issued>>
     \/ \E f \in FaultChoices :
          /\ sessions' = sessions \cup h[p].txSessions
          /\ h' = [h EXCEPT ![p] = LoginResponse(h[p], f)]
          /\ issued' = IF h'[p].status = 200
                         THEN Append(issued, h'[p].setCookie)
                         ELSE issued
          /\ CountFault(f)
  /\ UNCHANGED <<users, autoInc, clock, ticks, registered, clients, pretest>>

\* ------------------------------------------------------------ GET /user/:user_id
\* SELECT user_id, expires FROM sessions where id = ?
SessionsById(id) == {r \in sessions : r.id = id}

\* only the selected columns are scanned: the struct's ID stays empty
SessionFromRow(r) == [ZeroSession EXCEPT !.UserID = r.user_id, !.Expires = r.expires]

\* faulty variant: a session is taken for expired in its last second
SessionExpired_AtBoundary(t, userSession) == t >= userSession.Expires

\* faulty variant: the comparison reversed
SessionExpired_Reversed(t, userSession) == t < userSession.Expires

\* now.Unix() > int64(userSession.Expires)
SessionExpired(t, userSession) == t > userSession.Expires

\* the table the cleanup statement names
DeleteTable == "sessoins"

\* faulty variant: DELETE FROM sessions without the WHERE clause
DeleteSession_All(table, userSession, fails) ==
  IF fails THEN [err |-> "delete", rows |-> sessions]
  ELSE [err |-> "", rows |-> {}]

\* DELETE FROM <table> WHERE id = :id, bound from userSession: the error it
\* returns and the rows of sessions afterwards
DeleteSession(table, userSession, fails) ==
  IF fails \/ table \notin TableNames
    THEN [err |-> "delete", rows |-> sessions]
    ELSE [err |-> "",
          rows |-> IF table = "sessions"
                     THEN {r \in sessions : r.id # userSession.ID}
                     ELSE sessions]

\* SELECT name, display_name, description, created_at, updated_at
\* FROM users WHERE id = ?
UsersById(param) == {r \in users : r.id = ParamToId(param)}

\* faulty variant: display_name is missing from the column list
ProfileFromRow_NoDisplayName(r) ==
  [ZeroUser EXCEPT !.Name = r.name, !.Description = r.description,
                   !.CreatedAt = r.created_at, !.UpdatedAt = r.updated_at]

ProfileFromRow(r) ==
  [ZeroUser EXCEPT !.Name = r.name, !.DisplayName = r.display_name,
                   !.Description = r.description,
                   !.CreatedAt = r.created_at, !.UpdatedAt = r.updated_at]

\* no session token in the request
MissingTokenResponse(hp) == HTTPError(hp, 403, "")

\* faulty variant: an unknown token is answered like an expired one
UnknownSessionResponse_Unauthorized(hp) == HTTPError(hp, 401, "session has expired")

\* no row of sessions for the token
UnknownSessionResponse(hp) == HTTPError(hp, 403, "")

\* faulty variant: the error of the cleanup DELETE is returned to the caller
ExpiredResponse_Propagate(hp, del) ==
  IF del.err # ""
    THEN [HTTPError(hp, 500, del.err) EXCEPT !.warned = TRUE]
    ELSE HTTPError(hp, 401, "session has expired")

\* c.Logger().Warnf on a failed DELETE, then 401 in either case
ExpiredResponse(hp, del) ==
  [HTTPError(hp, 401, "session has expired") EXCEPT !.warned = (del.err # "")]

\* faulty variant: only the owner of the session may read a profile
UserResponse_OwnerOnly(hp, found) ==
  LET own == {r \in found : r.id = hp.userSession.UserID}
  IN IF own = {}
       THEN HTTPError(hp, 401, "session has expired")
       ELSE LET user == ProfileFromRow(CHOOSE r \in own : TRUE)
            IN [hp EXCEPT !.pc = "done", !.status = 200, !.user = user, !.body = user]

\* faulty variant: an unknown user id is answered 404
UserResponse_NotFound(hp, found) ==
  IF found = {}
    THEN HTTPError(hp, 404, "user not found")
    ELSE LET user == ProfileFromRow(CHOOSE r \in found : TRUE)
         IN [hp EXCEPT !.pc = "done", !.status = 200, !.user = user, !.body = user]

\* the profile lookup by the path parameter and the response
UserResponse(hp, found) ==
  IF found = {}
    THEN HTTPError(hp, 401, "session has expired")
    ELSE LET user == ProfileFromRow(CHOOSE r \in found : TRUE)
         IN [hp EXCEPT !.pc = "done", !.status = 200, !.user = user, !.body = user]

\* userHandler only reads (but for the cleanup of an expired session), and the
\* rows it reads never change once committed: it is taken in one step
UserHandlerWith(p, cookie, path) ==
  /\ Accepting(p)
  /\ LET hp == [IdleHandler EXCEPT !.kind = "get",
                  !.req = [ZeroRequest EXCEPT !.cookie = cookie, !.path = path]]
         found == SessionsById(cookie)
     IN IF cookie = BadCookie
          THEN /\ h' = [h EXCEPT ![p] = HTTPError(hp, 500, "session.Get")]
               /\ UNCHANGED <<sessions, nfaults>>
        ELSE IF cookie = NoCookie
          THEN /\ h' = [h EXCEPT ![p] = MissingTokenResponse(hp)]
               /\ UNCHANGED <<sessions, nfaults>>
        ELSE IF found = {}
          THEN /\ h' = [h EXCEPT ![p] = UnknownSessionResponse(hp)]
               /\ UNCHANGED <<sessions, nfaults>>
        ELSE LET hs == [hp EXCEPT
                          !.userSession = SessionFromRow(CHOOSE r \in found : TRUE),
                          !.now = clock]
             IN IF SessionExpired(hs.now, hs.userSession)
                  THEN \E f \in FaultChoices :
                         LET del == DeleteSession(DeleteTable, hs.userSession, f)
                         IN /\ sessions' = del.rows
                            /\ h' = [h EXCEPT ![p] =
                                       ExpiredResponse([hs EXCEPT !.faulted = f], del)]
                            /\ CountFault(f)
                  ELSE /\ h' = [h EXCEPT ![p] = UserResponse(hs, UsersById(path))]
                       /\ UNCHANGED <<sessions, nfaults>>
  /\ UNCHANGED <<users, autoInc, clock, ticks, issued, registered, clients>>

UserHandler(p) ==
  /\ Open
  /\ \E cookie \in {NoCookie, BadCookie} \cup SessionIds, path \in PathParams :
       UserHandlerWith(p, cookie, path)
  /\ UNCHANGED pretest

\* ------------------------------------------------------------ clock
Tick ==
  /\ NoneDone
  /\ ticks < MaxTicks
  /\ \E d \in Deltas : clock' = clock + d
  /\ ticks' = ticks + 1
  /\ UNCHANGED <<users, sessions, autoInc, nfaults, h, issued, registered, clients,
                 pretest>>

Next ==
  \/ \E p \in Procs : RegisterBadJson(p)
  \/ \E p \in Procs : RegisterStart(p)
  \/ \E p \in Procs : RegisterInsert(p)
  \/ \E p \in Procs : RegisterCommit(p)
  \/ \E p \in Procs : LoginBadJson(p)
  \/ \E p \in Procs : Login(p)
  \/ \E p \in Procs : LoginCommit(p)
  \/ \E p \in Procs : UserHandler(p)
  \/ \E p \in Procs : Respond(p)
  \/ Tick

Spec == Init /\ [][Next]_vars

\* ------------------------------------------------------------ bench: Pretest
\* The benchmarker's scenario against a freshly initialised server: PostUser,
\* Login, GetUser("1"), each call waiting for its response; a response that
\* is an error ends the scenario.
PretestUser == PostUserRequest("test", "test", "blah blah blah", "s3cr3t")

PretestLoginRequest == LoginRequest("test", "s3cr3t")

\* the user id the scenario asks for
PretestUserId == "1"

InitPretest ==
  /\ InitStores
  /\ clients = {"test"}
  /\ pretest = [pc |-> "post_user", jar |-> NoCookie]

PretestPostUser ==
  /\ pretest.pc = "post_user"
  /\ \E p \in Procs, f \in FaultChoices : RegisterStartWith(p, PretestUser, f)
  /\ pretest' = [pretest EXCEPT !.pc = "post_user_sent"]

PretestLogin ==
  /\ pretest.pc = "login"
  /\ \E p \in Procs : LoginWith(p, PretestLoginRequest)
  /\ pretest' = [pretest EXCEPT !.pc = "login_sent"]

PretestGetUser ==
  /\ pretest.pc = "get_user"
  /\ \E p \in Procs : UserHandlerWith(p, pretest.jar, PretestUserId)
  /\ pretest' = [pretest EXCEPT !.pc = "get_user_sent"]

\* the same request from a client that holds no cookie
AnonymousGetUser ==
  /\ pretest.pc = "get_user"
  /\ \E p \in Procs : UserHandlerWith(p, NoCookie, PretestUserId)
  /\ pretest' = [pretest EXCEPT !.pc = "anon_get_sent"]

\* the stage after a response with the given status
PretestAfter(pc, status) ==
  IF status \notin {200, 201} THEN "failed"
  ELSE IF pc = "post_user_sent" THEN "login"
  ELSE IF pc = "login_sent" THEN "get_user"
  ELSE "passed"

\* the client reads the response and keeps the cookie it sets
PretestReceive ==
  /\ pretest.pc \in {"post_user_sent", "login_sent", "get_user_sent", "anon_get_sent"}
  /\ \E p \in Procs :
       /\ h[p].pc = "done"
       /\ pretest' = [pc |-> PretestAfter(pretest.pc, h[p].status),
                      jar |-> IF h[p].setCookie # NoCookie
                                THEN h[p].setCookie ELSE pretest.jar]
       /\ h' = [h EXCEPT ![p] = IdleHandler]
  /\ UNCHANGED <<users, sessions, autoInc, clock, ticks, nfaults, issued, registered,
                 clients>>

NextPretest ==
  \/ PretestPostUser
  \/ PretestLogin
  \/ PretestGetUser
  \/ AnonymousGetUser
  \/ PretestReceive
  \/ \E p \in Procs : RegisterInsert(p)
  \/ \E p \in Procs : RegisterCommit(p)
  \/ \E p \in Procs : LoginCommit(p)
  \/ Tick

SpecPretest == InitPretest /\ [][NextPretest]_vars

\* ------------------------------------------------------------ two users
\* Clients that register both names and send one request at a time, against
\* a storage backend and a cookie codec that work: no failure is injected.
InitTwoUsers ==
  /\ InitStores
  /\ clients = Names
  /\ pretest = NoPretest

\* no request is being handled
AllIdle == \A q \in Procs : Free(q)

NoFaults == nfaults' = nfaults /\ \A q \in Procs : ~h'[q].faulted

SerialRegister == AllIdle /\ (\E p \in Procs : RegisterStart(p)) /\ NoFaults

SerialRegisterInsert == (\E p \in Procs : RegisterInsert(p)) /\ NoFaults

SerialRegisterCommit == (\E p \in Procs : RegisterCommit(p)) /\ NoFaults

SerialLogin == AllIdle /\ (\E p \in Procs : Login(p)) /\ NoFaults

SerialLoginCommit == (\E p \in Procs : LoginCommit(p)) /\ NoFaults

SerialUserHandler == AllIdle /\ (\E p \in Procs : UserHandler(p)) /\ NoFaults

NextTwoUsers ==
  \/ SerialRegister
  \/ SerialRegisterInsert
  \/ SerialRegisterCommit
  \/ SerialLogin
  \/ SerialLoginCommit
  \/ SerialUserHandler
  \/ \E p \in Procs : Respond(p)
  \/ Tick

SpecTwoUsers == InitTwoUsers /\ [][NextTwoUsers]_vars

\* ------------------------------------------------------------ properties
Done(p, kind) == h[p].pc = "done" /\ h[p].kind = kind

\* the request was decoded (the handler got past the JSON decoder)
Decoded(p) == h[p].status # 400

\* the credentials are those of a committed registration
Registered(req) == <<req.name, req.password>> \in registered

\* some user is registered under the name
KnownName(name) == \E c \in registered : c[1] = name

\* C1: no two rows of users share a name; a Register whose name is already
\* stored is answered with an error and adds no row, so exactly one row
\* carries the name afterwards.
C1_UniqueName ==
  /\ \A r1, r2 \in users : r1.name = r2.name => r1 = r2
  /\ \A p \in Procs :
       Done(p, "register") /\ h[p].preExists =>
         /\ h[p].status >= 400
         /\ h[p].tx # "committed"
         /\ Cardinality(UsersByName(h[p].req.name)) = 1

C1_Witness ==
  \E p \in Procs :
    /\ Done(p, "register") /\ h[p].preExists
    /\ h[p].status = 500 /\ h[p].err = "duplicate"

\* C2: a Login whose username/password pair matches no registered user is
\* answered 401, whether the username is unregistered or registered with
\* another password.
C2_AlwaysUnauthorized ==
  \A p \in Procs :
    Done(p, "login") /\ Decoded(p) /\ ~h[p].faulted /\ ~Registered(h[p].req)
      => h[p].status = 401

\* C3: for a registered user, Login answers 200, with a session row for that
\* user's id whose identifier is in the cookie, exactly when the password is
\* the one given at registration (and the storage works); another password
\* yields 401 and no session.
C3_LoginIffPassword ==
  \A p \in Procs :
    Done(p, "login") /\ Decoded(p) /\ KnownName(h[p].req.name) =>
      /\ h[p].status = 200 =>
           /\ Registered(h[p].req)
           /\ \E s \in sessions, r \in users :
                /\ s.id = h[p].setCookie
                /\ s.user_id = r.id
                /\ r.name = h[p].req.name
      /\ ~Registered(h[p].req) =>
           /\ h[p].status # 200
           /\ ~h[p].faulted => h[p].status = 401
           /\ h[p].setCookie = NoCookie
           /\ h[p].userSession = ZeroSession
           /\ h[p].tx # "committed"
      /\ Registered(h[p].req) /\ ~h[p].faulted /\ h[p].err # "duplicate" =>
           h[p].status = 200

C3_Witness ==
  \E p \in Procs :
    /\ Done(p, "login") /\ h[p].status = 200
    /\ Registered(h[p].req)
    /\ \E pw \in Passwords : pw # h[p].req.password
    /\ h[p].setCookie \in {s.id : s \in sessions}

\* C4: a request whose token names a stored session that expired before the
\* request is never answered 200, however often it is tried and whether or not
\* the row was cleaned up.
C4_ExpiredRejected ==
  \A p \in Procs :
    Done(p, "get") /\ (\E s \in sessions : s.id = h[p].req.cookie /\ s.expires < clock)
      => h[p].status # 200 /\ h[p].status >= 400 /\ h[p].body = ZeroUser

C4_Witness ==
  \E p \in Procs :
    /\ Done(p, "get")
    /\ \E s \in sessions : s.id = h[p].req.cookie /\ s.expires < clock
    /\ h[p].status = 401

\* C5: the session identifiers issued by successful Logins are pairwise
\* different, and every identifier in sessions is that of exactly one row.
C5_UniqueSessionIds ==
  /\ \A i, j \in 1..Len(issued) : i # j => issued[i] # issued[j]
  /\ \A s1, s2 \in sessions : s1.id = s2.id => s1 = s2

C5_Witness ==
  /\ Len(issued) = 2
  /\ Cardinality(sessions) = 2

\* C6: of two Register requests for one name that run concurrently, neither
\* hit by a storage failure, exactly one is answered 201 and the other with an
\* error, and exactly one row carries the name.
C6_ExactlyOneWins ==
  \A p, q \in Procs :
    /\ p # q
    /\ Done(p, "register") /\ Decoded(p) /\ ~h[p].preExists /\ ~h[p].faulted
    /\ Done(q, "register") /\ Decoded(q) /\ ~h[q].preExists /\ ~h[q].faulted
    /\ h[p].req.name = h[q].req.name
    => /\ {h[p].status, h[q].status} = {201, 500}
       /\ Cardinality(UsersByName(h[p].req.name)) = 1
       /\ \A r \in UsersByName(h[p].req.name) :
            r.password = IF h[p].status = 201 THEN h[p].user.Password
                                              ELSE h[q].user.Password

C6_Witness ==
  \E p, q \in Procs :
    /\ p # q
    /\ Done(p, "register") /\ ~h[p].preExists /\ h[p].status = 201
    /\ Done(q, "register") /\ ~h[q].preExists /\ h[q].err = "duplicate"
    /\ h[p].req.name = h[q].req.name
    /\ h[p].req.password # h[q].req.password

\* C7: GET /user/:user_id is answered 403, with the same empty message and
\* no profile, both without a session token and with a token that has no row
\* in sessions.
C7_ForbiddenWithoutSession ==
  \A p \in Procs :
    /\ Done(p, "get")
    /\ \/ h[p].req.cookie = NoCookie
       \/ h[p].req.cookie \in SessionIds /\ SessionsById(h[p].req.cookie) = {}
    => h[p].status = 403 /\ h[p].err = "" /\ h[p].body = ZeroUser

C7_Witness ==
  \E p \in Procs :
    /\ Done(p, "get")
    /\ h[p].req.cookie \in SessionIds /\ SessionsById(h[p].req.cookie) = {}
    /\ sessions # {}
    /\ h[p].status = 403

\* C8: from an empty store and with the storage working, Register is answered
\* 201, Login with the same credentials 200 with a session cookie, GET of that
\* user's id with the cookie, before it expires, 200 with the registered
\* profile fields, and the same GET without a cookie 403.
C8_Pretest ==
  \A p \in Procs :
    h[p].pc = "done" /\ nfaults = 0 =>
      /\ pretest.pc = "post_user_sent" =>
           /\ h[p].status = 201
           /\ \E r \in users : r.name = PretestUser.name /\ r.id = ParamToId(PretestUserId)
      /\ pretest.pc = "login_sent" =>
           h[p].status = 200 /\ h[p].setCookie \in SessionIds
      /\ pretest.pc = "get_user_sent"
           /\ (\E s \in sessions : s.id = h[p].req.cookie /\ clock <= s.expires) =>
           /\ h[p].status = 200
           /\ h[p].body.Name = PretestUser.name
           /\ h[p].body.DisplayName = PretestUser.display_name
           /\ h[p].body.Description = PretestUser.description
      /\ pretest.pc = "anon_get_sent" => h[p].status = 403

C8_Witness ==
  \E p \in Procs :
    /\ pretest.pc = "get_user_sent" /\ Done(p, "get") /\ nfaults = 0
    /\ h[p].req.cookie = pretest.jar /\ pretest.jar \in SessionIds
    /\ h[p].status = 200

\* C9: the record a successful Register returns is the stored row: its
\* generated id and its stored timestamps, with the submitted name, display
\* name and description.
C9_ReturnsStoredUser ==
  \A p \in Procs :
    Done(p, "register") /\ h[p].status = 201 =>
      \E r \in users :
        /\ r.name = h[p].body.Name
        /\ r.display_name = h[p].body.DisplayName
        /\ r.description = h[p].body.Description
        /\ r.id = h[p].body.ID
        /\ r.created_at = h[p].body.CreatedAt
        /\ r.updated_at = h[p].body.UpdatedAt

\* C10: once GET /user/:user_id has been answered for the token of an expired
\* session, with the storage working, sessions holds no row for that token.
C10_ExpiredSessionDeleted ==
  \A p \in Procs :
    /\ Done(p, "get") /\ ~h[p].faulted
    /\ h[p].req.cookie \in SessionIds
    /\ h[p].status = 401 /\ h[p].now > h[p].userSession.Expires
    => SessionsById(h[p].req.cookie) = {}

\* the INSERT of the request handler p runs has returned an error
InsertFailed(hp) == hp.pc = "done" /\ hp.err \in {"insert", "duplicate"}

\* C11: when the INSERT of Register or of Login fails, the transaction is
\* rolled back, the response is 500 and the step changes neither users nor
\* sessions; a row enters users or sessions only in the step that commits the
\* transaction it was inserted in, and is not visible before.
C11_StepInsertFailure ==
  \A p \in Procs :
    /\ h[p].pc # "done" /\ InsertFailed(h'[p]) =>
         /\ h'[p].status = 500
         /\ h'[p].tx = "rolledback"
         /\ h'[p].txUsers = {} /\ h'[p].txSessions = {}
         /\ users' = users /\ sessions' = sessions
    /\ h[p].tx = "open" => h[p].txUsers \cap users = {} /\ h[p].txSessions \cap sessions = {}

C11_StepCommit ==
  /\ users' # users =>
       \E p \in Procs : /\ h[p].pc = "reg_commit" /\ h[p].tx = "open"
                        /\ h'[p].tx = "committed"
                        /\ users' = users \cup h[p].txUsers
  /\ sessions' # sessions =>
       \E p \in Procs : /\ h[p].pc = "login_commit" /\ h[p].tx = "open"
                        /\ h'[p].tx = "committed"
                        /\ sessions' = sessions \cup h[p].txSessions

C11_InsertFailureRollsBack == [][C11_StepInsertFailure /\ C11_StepCommit]_vars

C11_Witness ==
  \E p \in Procs :
    /\ Done(p, "login") /\ h[p].err = "insert" /\ h[p].tx = "rolledback"
    /\ sessions # {} /\ users # {}

\* the token of the request p answered names a stored session that has expired
ExpiredToken(p) ==
  /\ Done(p, "get")
  /\ \E s \in SessionsById(h[p].req.cookie) : clock > s.expires

\* C12: GET /user/:user_id with the token of an expired session is answered
\* 401 "session has expired" whether the cleanup DELETE succeeds or fails; a
\* failure of the DELETE is logged and never becomes the response.
C12_ExpiredAlwaysUnauthorized ==
  \A p \in Procs :
    ExpiredToken(p) =>
      /\ h[p].status = 401
      /\ h[p].err = "session has expired"
      /\ h[p].body = ZeroUser
      /\ h[p].faulted => h[p].warned

C12_Witness ==
  \E p \in Procs :
    /\ ExpiredToken(p)
    /\ h[p].faulted /\ h[p].warned
    /\ h[p].status = 401

C15_LoginFinishesTx ==
  \A p \in Procs :
    Done(p, "login") => h[p].tx \in {"none", "committed", "rolledback"}

\* C16: a Login answered with anything but 200 has created no row of
\* sessions: its transaction was not committed and no row carries the
\* identifier it generated.
C16_FailedLoginNoSession ==
  \A p \in Procs :
    Done(p, "login") /\ h[p].status # 200 =>
      ~(h[p].tx = "committed" /\ SessionsById(h[p].userSession.ID) # {})

\* the token of the request p answered names a stored session that has not
\* expired
LiveToken(p) ==
  /\ Done(p, "get")
  /\ \E s \in SessionsById(h[p].req.cookie) : clock <= s.expires

\* C14: GET /user/<id of B> with the token of any stored, unexpired session,
\* whoever owns it, is answered 200 with the profile of B, for every stored
\* user B; the session's user_id plays no part.
C14_SessionPresenceOnly ==
  \A p \in Procs :
    LiveToken(p) =>
      \A r \in UsersById(h[p].req.path) :
        /\ h[p].status = 200
        /\ h[p].body = ProfileFromRow(r)
        /\ h[p].body.Name = r.name

C14_Witness ==
  \E p \in Procs :
    /\ LiveToken(p) /\ h[p].status = 200
    /\ \E s \in SessionsById(h[p].req.cookie), a, b \in users :
         /\ s.user_id = a.id
         /\ b.id = ParamToId(h[p].req.path)
         /\ a.name # b.name
         /\ h[p].body.Name = b.name

\* the rows of users the credentials of a Login request match
MatchingUsers(req) ==
  {r \in users : r.name = req.name /\ r.password = Sha512Hex(req.password)}

\* C17: the user_id of every row of sessions is the id of a row of users; the
\* row a Login inserts and commits carries the id of the user whose name and
\* password the request matched.
C17_SessionUserExists ==
  /\ \A s \in sessions : \E r \in users : r.id = s.user_id
  /\ \A p \in Procs :
       h[p].kind = "login" =>
         /\ \A s \in h[p].txSessions :
              \E r \in MatchingUsers(h[p].req) : s.user_id = r.id
         /\ h[p].tx = "committed" =>
              /\ SessionsById(h[p].userSession.ID) # {}
              /\ \A s \in SessionsById(h[p].userSession.ID) :
                   \E r \in MatchingUsers(h[p].req) : s.user_id = r.id

C17_Witness ==
  /\ \E s1, s2 \in sessions : s1.user_id # s2.user_id
  /\ \E p \in Procs :
       /\ Done(p, "login") /\ h[p].tx = "committed"
       /\ \E s \in SessionsById(h[p].userSession.ID) : s.user_id = 2

\* C18: GET /user/:user_id with the token of a stored, unexpired session and
\* a path id that matches no user is answered 401 "session has expired"; the
\* step changes neither sessions nor users, so the row stays in place for
\* later requests.
C18_Step ==
  \A p \in Procs :
    /\ h[p].pc # "done" /\ h'[p].pc = "done" /\ h'[p].kind = "get"
    /\ \E s \in SessionsById(h'[p].req.cookie) : clock <= s.expires
    /\ UsersById(h'[p].req.path) = {}
    => /\ h'[p].status = 401
       /\ h'[p].err = "session has expired"
       /\ h'[p].body = ZeroUser
       /\ ~h'[p].warned
       /\ sessions' = sessions /\ users' = users

C18_UnknownUserKeepsSession == [][C18_Step]_vars

C18_Witness ==
  \E p \in Procs :
    /\ LiveToken(p) /\ UsersById(h[p].req.path) = {}
    /\ h[p].status = 401
    /\ users # {}

\* handler p takes a step of a request of the given kind
Steps(p, kind) == h'[p] # h[p] /\ h'[p].kind = kind

\* C19: a step of Register leaves sessions unchanged; a step of Login leaves
\* users unchanged, and the step that answers a Login 401 or 400 leaves
\* sessions unchanged too; a step of GET /user/:user_id leaves users
\* unchanged and removes from sessions at most the expired row its token
\* names.
C19_Step ==
  \A p \in Procs :
    /\ Steps(p, "register") => sessions' = sessions
    /\ Steps(p, "login") =>
         /\ users' = users
         /\ h[p].pc = "idle" /\ h'[p].status \in {400, 401} => sessions' = sessions
    /\ Steps(p, "get") =>
         /\ users' = users
         /\ sessions' \subseteq sessions
         /\ \A s \in sessions \ sessions' :
              s.id = h'[p].req.cookie /\ s.expires < clock

C19_Frame == [][C19_Step]_vars

C19_Witness ==
  /\ Cardinality(sessions) = 2
  /\ users # {}
  /\ \E p \in Procs : ExpiredToken(p) /\ h[p].status = 401
====
